---- MODULE Spec2Model ----
(***************************************************************************)
(* A model of spell_lookup.py: one query of search_and_process, with its   *)
(* Rate Limiter (SEM), the Record Fetcher (fetch_db2 / fetch_files), the   *)
(* Stage Pipeline and Side-Chain Resolver of process_spell_single and      *)
(* process_spell_indexed, the multi-bar renderer and the aggregate output. *)
(*                                                                         *)
(* Process 0 is the coroutine search_and_process; processes 1..n are the   *)
(* ResolutionTasks (in single-key mode process 1 is the body of            *)
(* process_spell_single, awaited by search_and_process).                   *)
(* File names are modelled by integers whose order is the lexicographic    *)
(* order of the names (1 = "a.m2", 2 = "b.m2", 4 = "s.blp", 5 = "t.blp").  *)
(***************************************************************************)
EXTENDS Integers, Sequences, FiniteSets, Bags, TLC

\* ---------------------------------------------------------------- bounds
\* Number of visual identifiers of the wide root 500: one more than the
\* semaphore admits, so that a stage-2 sub-fetch has to wait for a permit.
WideFanout == 17
\* Number of root identifiers the name "Frostbolt" resolves to (roots without
\* any visual); the name "Fireball" resolves to the two roots 100 and 200,
\* the name "Blink" to the two roots 801 and 802, which have no visual.
DudMatches == 1

\* ------------------------------------------------------ program constants
SemLimit == 16
TOTAL_STAGES == 7
\* Python's None, the value of r.get(key) for a row without the key.
None == -1

\* ---------------------------------------------------------------- helpers
Range(s) == {s[i] : i \in DOMAIN s}

\* sorted(S): the ascending list of a set.
sorted(S) ==
    [i \in 1..Cardinality(S) |->
        CHOOSE x \in S : Cardinality({y \in S : y < x}) = i - 1]

\* The members of a Python set as the list a `for x in s` or a list
\* comprehension goes through; which member comes next is chosen when the
\* sub-fetch starts (Startable).
IterOrder(S) == sorted(S)

\* ------------------------------------------------- the remote data service
\* The tables of wago.tools/db2 as lists of rows; a fetch selects the rows
\* matching its exact: filters. Root 600 has a SpellXSpellVisual row without
\* the SpellVisualID key and a SpellVisualEvent row without the
\* SpellVisualKitID key (None is what r.get(key) gives for them).
SpellNameTable ==
    << [ID |-> 100, Name_lang |-> "Fireball"],
       [ID |-> 200, Name_lang |-> "Fireball"],
       [ID |-> 801, Name_lang |-> "Blink"],
       [ID |-> 802, Name_lang |-> "Blink"] >>
    \o [i \in 1..DudMatches |-> [ID |-> 400 + i, Name_lang |-> "Frostbolt"]]

\* The largest number of root identifiers one name resolves to.
MaxMatches == IF DudMatches > Len(SelectSeq(SpellNameTable, LAMBDA r : r.Name_lang = "Fireball"))
              THEN DudMatches
              ELSE Len(SelectSeq(SpellNameTable, LAMBDA r : r.Name_lang = "Fireball"))

WideVisuals == [i \in 1..WideFanout |-> [SpellID |-> 500, SpellVisualID |-> 500 + i]]

SpellXSpellVisualTable ==
    << [SpellID |-> 100, SpellVisualID |-> 1],
       [SpellID |-> 200, SpellVisualID |-> 1],
       [SpellID |-> 200, SpellVisualID |-> 2],
       [SpellID |-> 300, SpellVisualID |-> 3],
       [SpellID |-> 300, SpellVisualID |-> 4],
       [SpellID |-> 600, SpellVisualID |-> None],
       [SpellID |-> 600, SpellVisualID |-> 6] >> \o WideVisuals

SpellVisualEventTable ==
    << [SpellVisualID |-> 1, SpellVisualKitID |-> 11, TargetType |-> 4],
       [SpellVisualID |-> 2, SpellVisualKitID |-> 12, TargetType |-> 1],
       [SpellVisualID |-> 2, SpellVisualKitID |-> 13, TargetType |-> 4],
       [SpellVisualID |-> 6, SpellVisualKitID |-> None, TargetType |-> 4] >>

SpellVisualKitEffectTable ==
    << [ParentSpellVisualKitID |-> 11, EffectType |-> 2, Effect |-> 21],
       [ParentSpellVisualKitID |-> 11, EffectType |-> 1, Effect |-> 51],
       [ParentSpellVisualKitID |-> 12, EffectType |-> 2, Effect |-> 22],
       [ParentSpellVisualKitID |-> 13, EffectType |-> 1, Effect |-> 52] >>

SpellVisualKitModelAttachTable ==
    << [ID |-> 21, SpellVisualEffectNameID |-> 31],
       [ID |-> 22, SpellVisualEffectNameID |-> 32] >>

SpellVisualEffectNameTable ==
    << [ID |-> 31, ModelFileDataID |-> 41],
       [ID |-> 32, ModelFileDataID |-> 42] >>

SpellProceduralEffectTable ==
    << [ID |-> 51, Value_0 |-> 61],
       [ID |-> 52, Value_0 |-> 62] >>

SpellChainEffectsTable ==
    << [ID |-> 61, TextureFileDataID_0 |-> 71, TextureFileDataID_1 |-> 0,
        TextureFileDataID_2 |-> 0],
       [ID |-> 62, TextureFileDataID_0 |-> 71, TextureFileDataID_1 |-> 72,
        TextureFileDataID_2 |-> 0] >>

\* wago.tools/files: a text search, which also returns files whose id only
\* contains the searched digits.
FilesTable ==
    << [fdid |-> 41, filename |-> 1],
       [fdid |-> 141, filename |-> 3],
       [fdid |-> 42, filename |-> 2],
       [fdid |-> 71, filename |-> 5],
       [fdid |-> 72, filename |-> 4],
       [fdid |-> 172, filename |-> 6] >>

\* The rows the service returns for the request a process at `stage` sends
\* with filter value `key`.
RemoteRows(stage, key) ==
    CASE stage = "ids_by_name" ->
            LET T(r) == r.Name_lang = key IN SelectSeq(SpellNameTable, T)
      [] stage \in {"labels", "name"} ->
            LET T(r) == r.ID = key IN SelectSeq(SpellNameTable, T)
      [] stage = "s1" ->
            LET T(r) == r.SpellID = key IN SelectSeq(SpellXSpellVisualTable, T)
      [] stage \in {"s2", "c1"} ->
            LET T(r) == r.SpellVisualID = key IN SelectSeq(SpellVisualEventTable, T)
      [] stage = "s3" ->
            LET T(r) == r.ParentSpellVisualKitID = key /\ r.EffectType = 2
            IN SelectSeq(SpellVisualKitEffectTable, T)
      [] stage = "c2" ->
            LET T(r) == r.ParentSpellVisualKitID = key /\ r.EffectType = 1
            IN SelectSeq(SpellVisualKitEffectTable, T)
      [] stage = "s4" ->
            LET T(r) == r.ID = key IN SelectSeq(SpellVisualKitModelAttachTable, T)
      [] stage = "s5" ->
            LET T(r) == r.ID = key IN SelectSeq(SpellVisualEffectNameTable, T)
      [] stage = "c3" ->
            LET T(r) == r.ID = key IN SelectSeq(SpellProceduralEffectTable, T)
      [] stage = "c4" ->
            LET T(r) == r.ID = key IN SelectSeq(SpellChainEffectsTable, T)
      [] stage \in {"s6", "c5"} ->
            LET T(r) == r.fdid % 100 = key IN SelectSeq(FilesTable, T)

\* The page the service answers with. The SpellVisualEvent page of visual 3
\* has no data-page div, that of visual 4 has a payload without data rows, and
\* the SpellXSpellVisual payload of root 700 is not JSON; every other page has
\* its embedded payload.
RemotePage(stage, key) ==
    [div |-> ~(stage \in {"s2", "c1"} /\ key = 3),
     has_data |-> ~(stage \in {"s2", "c1"} /\ key = 4),
     malformed |-> (stage = "s1" /\ key = 700),
     data |-> RemoteRows(stage, key)]

\* fetch_db2 after the response is read: no data-page div gives [], a payload
\* without props.data.data gives [], else the payload's data rows.
fetch_db2_rows(page) ==
    IF ~page.div THEN <<>>
    ELSE IF ~page.has_data THEN <<>>
    ELSE page.data

\* fetch_files after the response is read: only the entries whose fdid is the
\* searched id, as (fdid, filename) rows.
fetch_files_rows(page, search_id) ==
    IF ~page.div \/ ~page.has_data THEN <<>>
    ELSE LET T(e) == e.fdid = search_id IN SelectSeq(page.data, T)

\* Faulty variant: a page without the embedded payload or without data rows is
\* an error.
fetch_db2_Strict(page) ==
    [raised |-> IF ~page.div \/ ~page.has_data THEN "LookupError"
                ELSE IF page.malformed THEN "JSONDecodeError" ELSE "none",
     rows |-> IF ~page.div \/ ~page.has_data \/ page.malformed THEN <<>> ELSE page.data]

\* The outcome of fetch_db2 once the response was read with a success
\* status: json.loads raises on a payload that is not JSON, else the rows are
\* returned.
fetch_db2(page) ==
    [raised |-> IF page.div /\ page.malformed THEN "JSONDecodeError" ELSE "none",
     rows |-> IF page.div /\ page.malformed THEN <<>> ELSE fetch_db2_rows(page)]

fetch_files(page, search_id) ==
    [raised |-> IF page.div /\ page.malformed THEN "JSONDecodeError" ELSE "none",
     rows |-> IF page.div /\ page.malformed THEN <<>>
              ELSE fetch_files_rows(page, search_id)]

\* The outcome of the fetch a process at `stage` sends with filter value
\* `key`, if the response has a success status.
FetchOutcome(stage, key) ==
    IF stage \in {"s6", "c5"}
    THEN fetch_files(RemotePage(stage, key), key)
    ELSE fetch_db2(RemotePage(stage, key))

\* What a completed fetch of `stage` returns to its caller.
FetchResult(stage, key) == FetchOutcome(stage, key).rows

\* ------------------------------------------------------------------ state
\* The inputs typed at the prompt: digits (a SpellID) or an exact name.
Queries ==
    {[isdigit |-> TRUE, id |-> i, name |-> ""] : i \in {100, 200, 300, 400, 500, 600, 700}}
    \cup {[isdigit |-> FALSE, id |-> 0, name |-> n] : n \in {"Fireball", "Frostbolt", "Blink", "Arcane"}}

\* Process 0 is search_and_process, the others are the ResolutionTasks.
Tasks == 1..MaxMatches
Procs == 0..MaxMatches

VARIABLES
    query,            \* name_or_id
    SEM,              \* value of the asyncio.Semaphore (0 before it is created)
    ids,              \* the root identifiers of the query
    task,             \* per process: position, locals and pending fetches
    multi_labels,     \* global multi_labels
    multi_progress,   \* global multi_progress
    multi_done_event, \* "none" | "clear" | "set"
    renderer,         \* position of multi_bar_renderer
    frame,            \* the bars last written to the terminal by the renderer
    aggregate_m2,     \* the shared result_m2 set
    aggregate_chain,  \* the shared result_chain set
    progress_log,     \* the stages handed to print_progress, in order
    stdout            \* the result blocks printed so far, in order

vars == <<query, SEM, ids, task, multi_labels, multi_progress, multi_done_event,
          renderer, frame, aggregate_m2, aggregate_chain, progress_log, stdout>>

IdleTask ==
    [status |-> "idle", pc |-> "none", spell_id |-> 0, spell_name |-> "",
     visual_ids |-> {}, kit_ids |-> {}, attach_ids |-> {}, name_ids |-> {},
     data_ids |-> {}, filenames |-> <<>>,
     c_kit_ids |-> {}, proc_ids |-> {}, chain_ids |-> {}, texture_ids |-> {},
     chain_texture_files |-> <<>>,
     names |-> <<>>, rows |-> <<>>,
     todo |-> <<>>, inflight |-> EmptyBag, got |-> {}, requests |-> {},
     error |-> "none"]

Init ==
    /\ query \in Queries
    /\ SEM = 0
    /\ ids = <<>>
    /\ task = [p \in Procs |-> IdleTask]
    /\ multi_labels = <<>>
    /\ multi_progress = <<>>
    /\ multi_done_event = "none"
    /\ renderer = "none"
    /\ frame = <<>>
    /\ aggregate_m2 = {}
    /\ aggregate_chain = {}
    /\ progress_log = <<>>
    /\ stdout = <<>>

SingleMode == query.isdigit

\* The stages whose sub-fetches are handed to asyncio.gather; every other
\* stage awaits its fetches one after the other.
GatherStages == {"s2", "s3", "s4", "s5"}

\* The number of requests sent and not yet answered, over all processes.
RECURSIVE InFlightUpTo(_)
InFlightUpTo(p) ==
    BagCardinality(task[p].inflight) + (IF p = 0 THEN 0 ELSE InFlightUpTo(p - 1))

InFlight == InFlightUpTo(MaxMatches)

\* No request of process p is in flight.
Idle(p) == BagToSet(task[p].inflight) = {}

\* A coroutine created for process p with the given first fetch.
Started(p, stage, sid, keys) ==
    [IdleTask EXCEPT !.status = "running", !.pc = stage, !.spell_id = sid,
                     !.todo = keys]

\* ------------------------------------------------------ search_and_process
\* Lines 520-533: create the semaphore, then run the single pipeline or
\* start the name search.
StartSearch ==
    /\ task[0].status = "idle"
    /\ SEM' = SemLimit
    /\ IF query.isdigit
       THEN /\ ids' = <<query.id>>
            /\ task' = [task EXCEPT
                   ![0] = [IdleTask EXCEPT !.status = "running", !.pc = "await_single"],
                   ![1] = Started(1, "name", query.id, <<query.id>>)]
       ELSE /\ ids' = <<>>
            /\ task' = [task EXCEPT
                   ![0] = Started(0, "ids_by_name", 0, <<query.name>>)]
    /\ UNCHANGED <<query, multi_labels, multi_progress, multi_done_event, renderer,
                   frame, aggregate_m2, aggregate_chain, progress_log, stdout>>

\* --------------------------------------------------- fetch_db2, fetch_files
\* The "first row, first name-like field" label, else str(spell_id).
SpellNameOf(rows, sid) ==
    IF rows # <<>> THEN rows[1].Name_lang ELSE ToString(sid)

Truthy(x) == x # None /\ x # 0

Filenames(rows) == [i \in DOMAIN rows |-> rows[i].filename]

\* Faulty variant: every stage keeps the rows of the last completed fetch only.
Absorb_KeepLast(rec, stage, rows) ==
    CASE stage = "ids_by_name" -> [rec EXCEPT !.rows = rows]
      [] stage = "labels" ->
            [rec EXCEPT !.names = Append(@, SpellNameOf(rows, ids[Len(@) + 1]))]
      [] stage = "name" -> [rec EXCEPT !.spell_name = SpellNameOf(rows, rec.spell_id)]
      [] stage \in {"s6", "c5"} -> [rec EXCEPT !.filenames = Filenames(rows)]
      [] stage \in {"c1", "c2", "c3", "c4"} -> rec
      [] OTHER -> [rec EXCEPT !.got = Range(rows)]

\* What the caller does with the rows of one completed fetch: a gather keeps
\* them until the join, a loop adds them to its collection right away.
Absorb(rec, stage, rows) ==
    CASE stage = "ids_by_name" ->
            [rec EXCEPT !.rows = rows]
      [] stage = "labels" ->
            [rec EXCEPT !.names = Append(@, SpellNameOf(rows, ids[Len(@) + 1]))]
      [] stage = "name" ->
            [rec EXCEPT !.spell_name = SpellNameOf(rows, rec.spell_id)]
      [] stage = "s6" ->
            [rec EXCEPT !.filenames = @ \o Filenames(rows)]
      [] stage = "c1" ->
            [rec EXCEPT !.c_kit_ids = @ \cup
                {IF ev.SpellVisualKitID = None THEN 0 ELSE ev.SpellVisualKitID :
                    ev \in {e \in Range(rows) : e.TargetType = 4}}]
      [] stage = "c2" ->
            [rec EXCEPT !.proc_ids = @ \cup
                {row.Effect : row \in {r \in Range(rows) : Truthy(r.Effect)}}]
      [] stage = "c3" ->
            [rec EXCEPT !.chain_ids = @ \cup
                {row.Value_0 : row \in {r \in Range(rows) : Truthy(r.Value_0)}}]
      [] stage = "c4" ->
            [rec EXCEPT !.texture_ids = @ \cup
                {tid \in UNION {{crow.TextureFileDataID_0, crow.TextureFileDataID_1,
                                 crow.TextureFileDataID_2} : crow \in Range(rows)} :
                    Truthy(tid)}]
      [] stage = "c5" ->
            [rec EXCEPT !.chain_texture_files = @ \o Filenames(rows)]
      [] OTHER ->
            [rec EXCEPT !.got = @ \cup Range(rows)]

\* `async with SEM` entered: the next fetch of process p takes a permit and
\* sends its request; the request in flight is kept as the outcome the fetch
\* will have once the service has answered with a success status. Sub-fetches of a gather do so while earlier ones are
\* still in flight; a loop starts its next fetch only after the previous one.
\* Faulty variant: the fetch does not wait for a permit.
PermitFree_NoWait == TRUE

PermitFree == SEM > 0

\* The stages that iterate over a set of identifiers: the order in which their
\* sub-fetches start is the iteration order of the set, which is any order.
SetStages == {"s2", "s3", "s4", "s5", "s6", "c1", "c2", "c3", "c4", "c5"}

\* The pending sub-fetches of rec one of which starts next: the first one of
\* a list, any one of a set (of those that will get the same rows, the first).
Startable(rec) ==
    IF rec.pc \in SetStages
    THEN {i \in DOMAIN rec.todo :
             \A j \in 1..(i - 1) :
                 FetchOutcome(rec.pc, rec.todo[j]) # FetchOutcome(rec.pc, rec.todo[i])}
    ELSE {i \in DOMAIN rec.todo : i = 1}

RemoveAt(s, i) == SubSeq(s, 1, i - 1) \o SubSeq(s, i + 1, Len(s))

\* Faulty variant: the request is sent outside `async with SEM`.
Acquire_NoPermit(p, i) ==
    /\ task[p].status \in {"running", "failed"}
    /\ task[p].pc \in GatherStages \/ Idle(p)
    /\ i \in Startable(task[p])
    /\ task' = [task EXCEPT ![p].todo = RemoveAt(@, i),
                            ![p].inflight = @ (+) SetToBag(
                                {FetchOutcome(task[p].pc, task[p].todo[i])}),
                            ![p].requests = @ \cup {task[p].pc}]
    /\ UNCHANGED <<query, SEM, ids, multi_labels, multi_progress, multi_done_event,
                   renderer, frame, aggregate_m2, aggregate_chain, progress_log,
                   stdout>>

Acquire(p, i) ==
    /\ task[p].status \in {"running", "failed"}
    /\ task[p].pc \in GatherStages \/ Idle(p)
    /\ PermitFree
    /\ i \in Startable(task[p])
    /\ SEM' = SEM - 1
    /\ task' = [task EXCEPT ![p].todo = RemoveAt(@, i),
                            ![p].inflight = @ (+) SetToBag(
                                {FetchOutcome(task[p].pc, task[p].todo[i])}),
                            ![p].requests = @ \cup {task[p].pc}]
    /\ UNCHANGED <<query, ids, multi_labels, multi_progress, multi_done_event,
                   renderer, frame, aggregate_m2, aggregate_chain, progress_log,
                   stdout>>

\* Faulty variant: the shared set is overwritten by the files of the last fetch.
AddAll_Overwrite(result, files) == Range(files)

\* `for m2 in m2s: result_m2.add(m2)` and `for cf in chain_files:
\* result_chain.add(cf)`.
AddAll(result, files) == result \cup Range(files)

\* The response was read and the permit released; the rows go to the caller
\* (a sub-fetch of a gather that already raised has nobody to return to).
RespondOk(p, out) ==
    /\ BagIn(out, task[p].inflight)
    /\ out.raised = "none"
    /\ SEM' = SEM + 1
    /\ LET rec == [task[p] EXCEPT !.inflight = @ (-) SetToBag({out})]
       IN /\ task' = [task EXCEPT ![p] =
                 IF task[p].status = "running"
                 THEN Absorb(rec, task[p].pc, out.rows) ELSE rec]
          /\ aggregate_m2' =
                 IF task[p].status = "running" /\ task[p].pc = "s6" /\ ~SingleMode
                 THEN AddAll(aggregate_m2, Filenames(out.rows))
                 ELSE aggregate_m2
    /\ UNCHANGED <<query, ids, multi_labels, multi_progress, multi_done_event,
                   renderer, frame, aggregate_chain, progress_log, stdout>>

\* Faulty variant: an exception leaves the fetch without releasing the permit.
Raise_Leak(p, out, err) ==
    /\ task' = [task EXCEPT
           ![p].inflight = @ (-) SetToBag({out}),
           ![p].status = IF @ = "running" THEN "failed" ELSE @,
           ![p].error = IF task[p].status = "running" THEN err ELSE @,
           ![p].got = {},
           ![p].todo = IF task[p].pc \in GatherStages THEN @ ELSE <<>>]
    /\ UNCHANGED <<query, SEM, ids, multi_labels, multi_progress, multi_done_event,
                   renderer, frame, aggregate_m2, aggregate_chain, progress_log,
                   stdout>>

\* The fetch of process p with outcome `out` raised `err`: the permit is
\* released and the exception ends the awaiting coroutine. The other
\* sub-fetches of a gather are not cancelled by it.
Raise(p, out, err) ==
    /\ SEM' = SEM + 1
    /\ task' = [task EXCEPT
           ![p].inflight = @ (-) SetToBag({out}),
           ![p].status = IF @ = "running" THEN "failed" ELSE @,
           ![p].error = IF task[p].status = "running" THEN err ELSE @,
           ![p].got = {},
           ![p].todo = IF task[p].pc \in GatherStages THEN @ ELSE <<>>]
    /\ UNCHANGED <<query, ids, multi_labels, multi_progress, multi_done_event,
                   renderer, frame, aggregate_m2, aggregate_chain, progress_log,
                   stdout>>

\* The response has a non-success status: raise_for_status raised.
RespondFail(p, out) ==
    /\ BagIn(out, task[p].inflight)
    /\ Raise(p, out, "ClientResponseError")

\* The response was read with a success status and parsing it raised.
ParseFail(p, out) ==
    /\ BagIn(out, task[p].inflight)
    /\ out.raised # "none"
    /\ Raise(p, out, out.raised)

\* ------------------------------------------------------- progress reporting
\* Faulty variant: in multi-key mode every task writes the first slot.
Report_FirstSlot(p, stage) ==
    IF SingleMode
    THEN /\ progress_log' = Append(progress_log, stage)
         /\ UNCHANGED multi_progress
    ELSE /\ multi_progress' = [multi_progress EXCEPT ![1] = stage]
         /\ UNCHANGED progress_log

\* print_progress(stage, label) in single-key mode, multi_progress[idx] =
\* stage in multi-key mode.
Report(p, stage) ==
    IF SingleMode
    THEN /\ progress_log' = Append(progress_log, stage)
         /\ UNCHANGED multi_progress
    ELSE /\ multi_progress' = [multi_progress EXCEPT ![p] = stage]
         /\ UNCHANGED progress_log

\* Faulty variant: the stage is over once its last sub-fetch has started.
FetchesDone_Early(p) ==
    /\ task[p].status = "running"
    /\ task[p].todo = <<>>

\* Every fetch the process issued for its current stage has returned.
FetchesDone(p) ==
    /\ task[p].status = "running"
    /\ task[p].todo = <<>>
    /\ Idle(p)

\* A result block written to the terminal.
Block(what, files, id) == [what |-> what, files |-> files, id |-> id]

\* Faulty variant: a stage without input still queries, with the placeholder 0.
Enter_Placeholder(rec, stage, keys) ==
    [rec EXCEPT !.pc = stage, !.got = {},
                !.todo = IF keys = {} THEN <<0>> ELSE IterOrder(keys)]

\* The process moves on to `stage`, fanning out over the identifiers `keys`.
Enter(rec, stage, keys) ==
    [rec EXCEPT !.pc = stage, !.todo = IterOrder(keys), !.got = {}]

\* -------------------------- process_spell_single and process_spell_indexed
\* The SpellName lookup returned: stage 0 is reported (in single-key mode
\* after the class lookup, below).
NameDone(p) ==
    /\ p \in Tasks /\ task[p].pc = "name" /\ FetchesDone(p)
    /\ IF SingleMode
       THEN /\ task' = [task EXCEPT ![p].pc = "classify"]
            /\ UNCHANGED <<multi_progress, progress_log>>
       ELSE /\ task' = [task EXCEPT ![p] = Enter(task[p], "s1", {task[p].spell_id})]
            /\ Report(p, 0)
    /\ UNCHANGED <<query, SEM, ids, multi_labels, multi_done_event, renderer, frame,
                   aggregate_m2, aggregate_chain, stdout>>

\* fetch_spell_class_wowhead: a blocking request outside the semaphore, whose
\* raise_for_status may raise; then print_progress(0, spell_name).
Classify(p, ok) ==
    /\ p \in Tasks /\ task[p].pc = "classify" /\ task[p].status = "running"
    /\ IF ok
       THEN /\ task' = [task EXCEPT ![p] = Enter(task[p], "s1", {task[p].spell_id})]
            /\ Report(p, 0)
       ELSE /\ task' = [task EXCEPT ![p].status = "failed", ![p].error = "HTTPError"]
            /\ UNCHANGED <<multi_progress, progress_log>>
    /\ UNCHANGED <<query, SEM, ids, multi_labels, multi_done_event, renderer, frame,
                   aggregate_m2, aggregate_chain, stdout>>

Stage1Done(p) ==
    /\ p \in Tasks /\ task[p].pc = "s1" /\ FetchesDone(p)
    /\ LET out == {r.SpellVisualID : r \in task[p].got}
       IN task' = [task EXCEPT ![p] = Enter([task[p] EXCEPT !.visual_ids = out], "s2", out)]
    /\ Report(p, 1)
    /\ UNCHANGED <<query, SEM, ids, multi_labels, multi_done_event, renderer, frame,
                   aggregate_m2, aggregate_chain, stdout>>

Stage2Done(p) ==
    /\ p \in Tasks /\ task[p].pc = "s2" /\ FetchesDone(p)
    /\ LET out == {r.SpellVisualKitID : r \in task[p].got}
       IN task' = [task EXCEPT ![p] = Enter([task[p] EXCEPT !.kit_ids = out], "s3", out)]
    /\ Report(p, 2)
    /\ UNCHANGED <<query, SEM, ids, multi_labels, multi_done_event, renderer, frame,
                   aggregate_m2, aggregate_chain, stdout>>

Stage3Done(p) ==
    /\ p \in Tasks /\ task[p].pc = "s3" /\ FetchesDone(p)
    /\ LET out == {r.Effect : r \in task[p].got}
       IN task' = [task EXCEPT ![p] = Enter([task[p] EXCEPT !.attach_ids = out], "s4", out)]
    /\ Report(p, 3)
    /\ UNCHANGED <<query, SEM, ids, multi_labels, multi_done_event, renderer, frame,
                   aggregate_m2, aggregate_chain, stdout>>

\* Faulty variant: stage 4 does not report its progress.
Stage4Done_NoReport(p) ==
    /\ p \in Tasks /\ task[p].pc = "s4" /\ FetchesDone(p)
    /\ LET out == {r.SpellVisualEffectNameID : r \in task[p].got}
       IN task' = [task EXCEPT ![p] = Enter([task[p] EXCEPT !.name_ids = out], "s5", out)]
    /\ UNCHANGED <<query, SEM, ids, multi_labels, multi_done_event, renderer, frame,
                   aggregate_m2, aggregate_chain, stdout, multi_progress,
                   progress_log>>

Stage4Done(p) ==
    /\ p \in Tasks /\ task[p].pc = "s4" /\ FetchesDone(p)
    /\ LET out == {r.SpellVisualEffectNameID : r \in task[p].got}
       IN task' = [task EXCEPT ![p] = Enter([task[p] EXCEPT !.name_ids = out], "s5", out)]
    /\ Report(p, 4)
    /\ UNCHANGED <<query, SEM, ids, multi_labels, multi_done_event, renderer, frame,
                   aggregate_m2, aggregate_chain, stdout>>

Stage5Done(p) ==
    /\ p \in Tasks /\ task[p].pc = "s5" /\ FetchesDone(p)
    /\ LET out == {r.ModelFileDataID : r \in task[p].got}
       IN task' = [task EXCEPT ![p] = Enter([task[p] EXCEPT !.data_ids = out], "s6", out)]
    /\ Report(p, 5)
    /\ UNCHANGED <<query, SEM, ids, multi_labels, multi_done_event, renderer, frame,
                   aggregate_m2, aggregate_chain, stdout>>

\* Stage 6 is over. process_spell_single sorts and prints its file list here
\* and then reports stage 7 (Report7); process_spell_indexed goes on to the
\* chain textures.
AfterStage6(rec) ==
    IF SingleMode
    THEN [rec EXCEPT !.pc = "report7", !.filenames = sorted(Range(@))]
    ELSE Enter(rec, "c1", rec.visual_ids)

Stage6Done(p) ==
    /\ p \in Tasks /\ task[p].pc = "s6" /\ FetchesDone(p)
    /\ task' = [task EXCEPT ![p] = AfterStage6(task[p])]
    /\ Report(p, 6)
    /\ stdout' = IF SingleMode
                 THEN Append(stdout, Block("m2", sorted(Range(task[p].filenames)),
                                           task[p].spell_id))
                 ELSE stdout
    /\ UNCHANGED <<query, SEM, ids, multi_labels, multi_done_event, renderer, frame,
                   aggregate_m2, aggregate_chain>>

\* process_spell_single, line 425: print_progress(7, "ChainTextures"), then the
\* call of lookup_chain_effect_textures.
Report7(p) ==
    /\ p \in Tasks /\ task[p].pc = "report7" /\ task[p].status = "running"
    /\ task' = [task EXCEPT ![p] = Enter(task[p], "c1", task[p].visual_ids)]
    /\ Report(p, TOTAL_STAGES)
    /\ UNCHANGED <<query, SEM, ids, multi_labels, multi_done_event, renderer, frame,
                   aggregate_m2, aggregate_chain, stdout>>

\* ----------------------------------------------- lookup_chain_effect_textures
\* One loop of the side-chain is over and the next one starts.
ChainNext(rec) ==
    CASE rec.pc = "c1" -> Enter(rec, "c2", rec.c_kit_ids)
      [] rec.pc = "c2" -> Enter(rec, "c3", rec.proc_ids)
      [] rec.pc = "c3" -> Enter(rec, "c4", rec.chain_ids)
      [] rec.pc = "c4" -> Enter(rec, "c5", rec.texture_ids)

ChainStep(p) ==
    /\ p \in Tasks /\ task[p].pc \in {"c1", "c2", "c3", "c4"} /\ FetchesDone(p)
    /\ task' = [task EXCEPT ![p] = ChainNext(task[p])]
    /\ UNCHANGED <<query, SEM, ids, multi_labels, multi_progress, multi_done_event,
                   renderer, frame, aggregate_m2, aggregate_chain, progress_log,
                   stdout>>

\* lookup_chain_effect_textures returned sorted(set(chain_texture_files)):
\* process_spell_single prints the textures and the link, process_spell_indexed
\* adds them to result_chain and sets multi_progress[idx] = 7.
ChainDone(p) ==
    /\ p \in Tasks /\ task[p].pc = "c5" /\ FetchesDone(p)
    /\ LET chain_files == sorted(Range(task[p].chain_texture_files))
       IN /\ task' = [task EXCEPT ![p].pc = "done", ![p].status = "done",
                                  ![p].chain_texture_files = chain_files]
          /\ IF SingleMode
             THEN /\ stdout' = stdout \o <<Block("chain", chain_files, task[p].spell_id),
                                           Block("link", <<>>, task[p].spell_id)>>
                  /\ UNCHANGED <<aggregate_chain, multi_progress, progress_log>>
             ELSE /\ aggregate_chain' = AddAll(aggregate_chain, chain_files)
                  /\ Report(p, TOTAL_STAGES)
                  /\ UNCHANGED stdout
    /\ UNCHANGED <<query, SEM, ids, multi_labels, multi_done_event, renderer, frame,
                   aggregate_m2>>

\* --------------------------------------- search_and_process, multi-key path
\* Faulty variant: the label lookups start whether or not an id was found.
IdsDone_NoCheck ==
    /\ task[0].pc = "ids_by_name" /\ FetchesDone(0)
    /\ LET with_id == SelectSeq(task[0].rows, LAMBDA r : r.ID # None)
           found == [i \in DOMAIN with_id |-> with_id[i].ID]
       IN /\ ids' = found
          /\ task' = [task EXCEPT ![0] =
                 [task[0] EXCEPT !.pc = "labels", !.todo = found]]
          /\ UNCHANGED stdout
    /\ UNCHANGED <<query, SEM, multi_labels, multi_progress, multi_done_event,
                   renderer, frame, aggregate_m2, aggregate_chain, progress_log>>

\* fetch_spell_ids_by_name returned: no id is the "no spells found" return,
\* else the label lookups start, one id after the other.
IdsDone ==
    /\ task[0].pc = "ids_by_name" /\ FetchesDone(0)
    /\ LET with_id == SelectSeq(task[0].rows, LAMBDA r : r.ID # None)
           found == [i \in DOMAIN with_id |-> with_id[i].ID]
       IN /\ ids' = found
          /\ IF found = <<>>
             THEN /\ task' = [task EXCEPT ![0].pc = "finished", ![0].status = "done"]
                  /\ stdout' = Append(stdout, Block("nomatch", <<>>, 0))
             ELSE /\ task' = [task EXCEPT ![0] =
                        [task[0] EXCEPT !.pc = "labels", !.todo = found]]
                  /\ UNCHANGED stdout
    /\ UNCHANGED <<query, SEM, multi_labels, multi_progress, multi_done_event,
                   renderer, frame, aggregate_m2, aggregate_chain, progress_log>>

\* Lines 552-577: the shared progress state is set up, the placeholders are
\* printed, the renderer and one task per id are created.
AllTasksStarted ==
    [p \in Procs |->
        IF p = 0 THEN [task[0] EXCEPT !.pc = "await_tasks"]
        ELSE IF p <= Len(ids) THEN Started(p, "name", ids[p], <<ids[p]>>)
        ELSE task[p]]

LabelsDone ==
    /\ task[0].pc = "labels" /\ FetchesDone(0)
    /\ multi_labels' = task[0].names
    /\ multi_progress' = [i \in DOMAIN ids |-> 0]
    /\ multi_done_event' = "clear"
    /\ renderer' = "running"
    /\ frame' = [i \in DOMAIN ids |-> 0]
    /\ task' = AllTasksStarted
    /\ UNCHANGED <<query, SEM, ids, aggregate_m2, aggregate_chain, progress_log,
                   stdout>>

\* multi_bar_renderer: one pass of the loop while the event is not set.
RenderTick ==
    /\ renderer = "running" /\ multi_done_event = "clear"
    /\ frame' = multi_progress
    /\ UNCHANGED <<query, SEM, ids, task, multi_labels, multi_progress,
                   multi_done_event, renderer, aggregate_m2, aggregate_chain,
                   progress_log, stdout>>

\* Faulty variant: the renderer exits without the final update.
RenderFinal_NoUpdate ==
    /\ renderer = "running" /\ multi_done_event = "set"
    /\ renderer' = "exited"
    /\ UNCHANGED <<query, SEM, ids, task, multi_labels, multi_progress, frame,
                   multi_done_event, aggregate_m2, aggregate_chain, progress_log,
                   stdout>>

\* multi_bar_renderer: the event is set, the final update is written.
RenderFinal ==
    /\ renderer = "running" /\ multi_done_event = "set"
    /\ frame' = multi_progress
    /\ renderer' = "exited"
    /\ UNCHANGED <<query, SEM, ids, task, multi_labels, multi_progress,
                   multi_done_event, aggregate_m2, aggregate_chain, progress_log,
                   stdout>>

\* Faulty variant: the wait returns with the first task that has returned.
TasksJoined_First == \E t \in DOMAIN ids : task[t].status = "done"

\* `await asyncio.gather(*tasks)` returns once every task has returned.
TasksJoined == \A t \in DOMAIN ids : task[t].status = "done"

GatherDone ==
    /\ task[0].pc = "await_tasks" /\ task[0].status = "running"
    /\ TasksJoined
    /\ multi_done_event' = "set"
    /\ task' = [task EXCEPT ![0].pc = "await_renderer"]
    /\ UNCHANGED <<query, SEM, ids, multi_labels, multi_progress, renderer, frame,
                   aggregate_m2, aggregate_chain, progress_log, stdout>>

\* Lines 586-604: the combined results and the link of the first id.
PrintAggregate ==
    /\ task[0].pc = "await_renderer" /\ renderer = "exited"
    /\ stdout' = stdout \o <<Block("m2", sorted(aggregate_m2), 0),
                             Block("chain", sorted(aggregate_chain), 0),
                             Block("link", <<>>, ids[1])>>
    /\ task' = [task EXCEPT ![0].pc = "finished", ![0].status = "done"]
    /\ UNCHANGED <<query, SEM, ids, multi_labels, multi_progress, multi_done_event,
                   renderer, frame, aggregate_m2, aggregate_chain, progress_log>>

\* `await process_spell_single(...)` returned.
SingleDone ==
    /\ task[0].pc = "await_single" /\ task[1].status = "done"
    /\ task' = [task EXCEPT ![0].pc = "finished", ![0].status = "done"]
    /\ UNCHANGED <<query, SEM, ids, multi_labels, multi_progress, multi_done_event,
                   renderer, frame, aggregate_m2, aggregate_chain, progress_log,
                   stdout>>

\* An exception reached search_and_process: from its own fetch, from the
\* awaited process_spell_single, or from asyncio.gather(*tasks), which raises
\* the first exception of any task. Nothing catches it: the session is closed,
\* asyncio.run cancels every task still pending (each cancelled fetch leaves
\* its `async with SEM`), and the exception leaves interactive_loop.
ExceptionRaised == \E p \in Procs : task[p].status = "failed"

Cancelled(rec) ==
    [rec EXCEPT !.status = IF @ = "running" THEN "cancelled" ELSE @,
                !.todo = <<>>, !.inflight = EmptyBag]

Crash ==
    /\ task[0].pc \in {"ids_by_name", "labels", "await_single", "await_tasks"}
    /\ ExceptionRaised
    /\ task' = [p \in Procs |->
                  IF p = 0 THEN [Cancelled(task[0]) EXCEPT !.pc = "crashed", !.status = "failed",
                                    !.error = IF @ = "none" THEN "task" ELSE @]
                  ELSE Cancelled(task[p])]
    /\ SEM' = SEM + InFlight
    /\ renderer' = IF renderer = "running" THEN "cancelled" ELSE renderer
    /\ UNCHANGED <<query, ids, multi_labels, multi_progress, multi_done_event, frame,
                   aggregate_m2, aggregate_chain, progress_log, stdout>>

\* ------------------------------------------------------------ specification
Next ==
    \/ StartSearch
    \/ \E p \in Procs : \E i \in DOMAIN task[p].todo : Acquire(p, i)
    \/ \E p \in Procs : \E out \in BagToSet(task[p].inflight) : RespondOk(p, out)
    \/ \E p \in Procs : \E out \in BagToSet(task[p].inflight) : RespondFail(p, out)
    \/ \E p \in Procs : \E out \in BagToSet(task[p].inflight) : ParseFail(p, out)
    \/ \E p \in Tasks : NameDone(p)
    \/ \E p \in Tasks : \E ok \in BOOLEAN : Classify(p, ok)
    \/ \E p \in Tasks : Stage1Done(p)
    \/ \E p \in Tasks : Stage2Done(p)
    \/ \E p \in Tasks : Stage3Done(p)
    \/ \E p \in Tasks : Stage4Done(p)
    \/ \E p \in Tasks : Stage5Done(p)
    \/ \E p \in Tasks : Stage6Done(p)
    \/ \E p \in Tasks : Report7(p)
    \/ \E p \in Tasks : ChainStep(p)
    \/ \E p \in Tasks : ChainDone(p)
    \/ IdsDone
    \/ LabelsDone
    \/ RenderTick
    \/ RenderFinal
    \/ GatherDone
    \/ PrintAggregate
    \/ SingleDone
    \/ Crash

Spec == Init /\ [][Next]_vars

\* A remote call returns: with rows, with a non-success status, or with a
\* payload that cannot be parsed.
RemoteReturn ==
    \E p \in Procs : \E out \in BagToSet(task[p].inflight) :
        RespondOk(p, out) \/ RespondFail(p, out) \/ ParseFail(p, out)

\* The queries whose every remote call eventually returns and whose every
\* coroutine that can run is eventually run by the event loop.
\* The queries of the fair specification: every query but "Fireball", the
\* two-task query being "Blink" and the wide fan-out that of root 500.
LiveQueries == {q \in Queries : q.name # "Fireball"}

LiveInit == Init /\ query \in LiveQueries

FairSpec ==
    LiveInit /\ [][Next]_vars /\ WF_vars(RemoteReturn) /\ WF_vars(Next)

\* ==================================================================== claims
\* Stage 7 was reported for task t: print_progress(7, ...) was called, or
\* multi_progress[t] holds 7.
ReportedTerminal(t) ==
    IF SingleMode
    THEN TOTAL_STAGES \in Range(progress_log)
    ELSE t \in DOMAIN multi_progress /\ multi_progress[t] = TOTAL_STAGES

\* The ResolutionTasks the query created.
Created == {t \in Tasks : task[t].status # "idle"}

\* search_and_process has returned or raised.
QueryOver == task[0].pc \in {"finished", "crashed"}

\* The result blocks with at least one artifact in them.
Shown == {i \in DOMAIN stdout : stdout[i].what \in {"m2", "chain"} /\ stdout[i].files # <<>>}

\* seq lists the members of S in ascending order, each once.
IsSortedListOf(seq, S) ==
    /\ Range(seq) = S
    /\ \A i, j \in DOMAIN seq : i < j => seq[i] < seq[j]

\* C1: the number of remote calls in flight through fetch_db2 and fetch_files
\* together never exceeds the semaphore's 16 permits.
C1_InFlightBounded == InFlight <= SemLimit

\* All 16 permits are taken and a sub-fetch of the same gather is waiting.
C1_Witness ==
    /\ InFlight = SemLimit
    /\ \E p \in Tasks : task[p].pc \in GatherStages /\ task[p].todo # <<>>

\* C2: every fetch in flight holds exactly one permit: once the semaphore
\* exists, the permits taken from it are as many as the requests in flight.
C2_OnePermitPerFetch ==
    task[0].status # "idle" => SemLimit - SEM = InFlight

\* A file search of one task and a record fetch of the side-chain of another
\* task are in flight together.
C2_Witness ==
    \E p, q \in Tasks :
        /\ task[p].pc = "s6" /\ ~Idle(p)
        /\ task[q].pc \in {"c1", "c2", "c3", "c4"} /\ ~Idle(q)

\* C3: the reported stages of a task start at 0, never decrease, never skip
\* a stage and stay within 0..7, for print_progress and for multi_progress.
C3_LogStep ==
    \/ progress_log' = progress_log
    \/ \E n \in 0..TOTAL_STAGES :
          /\ progress_log' = Append(progress_log, n)
          /\ IF progress_log = <<>> THEN n = 0
             ELSE n \in {progress_log[Len(progress_log)],
                         progress_log[Len(progress_log)] + 1}

C3_SlotStep ==
    \A i \in DOMAIN multi_progress' :
        /\ multi_progress'[i] \in 0..TOTAL_STAGES
        /\ IF i \in DOMAIN multi_progress
           THEN multi_progress'[i] \in {multi_progress[i], multi_progress[i] + 1}
           ELSE multi_progress'[i] = 0

C3_StagesInOrder == [][C3_LogStep /\ C3_SlotStep]_vars

\* One task of a multi-key query has reported stage 7 while another one is
\* at stage 3.
C3_Witness ==
    /\ Len(multi_progress) = 2
    /\ multi_progress[1] = 3
    /\ multi_progress[2] = TOTAL_STAGES

\* C4 (as claimed): a task in which a fetch failed never reported stage 7.
C4_FailedNeverTerminal ==
    \A t \in Created : task[t].status = "failed" => ~ReportedTerminal(t)

\* C5 (as claimed): stage 7 is reported only once the side-chain of the task
\* has completed.
C5_TerminalAfterSideChain ==
    \A t \in Created : ReportedTerminal(t) => task[t].status = "done"

\* C6 (as claimed): in a multi-key query, once the query is over every task
\* none of whose own fetches failed has reached stage 7.
C6_SiblingsComplete ==
    (~SingleMode /\ QueryOver) =>
        \A t \in Created : task[t].status # "failed" => ReportedTerminal(t)

\* C7 (as claimed): no artifact of a task with a failed fetch has been shown.
C7_NoOutputOnFailure ==
    (\E t \in Created : task[t].status = "failed") => Shown = {}

\* The artifact sets of the root identifier `root`, stage by stage.
KitsOf(V) ==
    UNION {{r.SpellVisualKitID : r \in Range(FetchResult("s2", v))} : v \in V}
AttachOf(K) ==
    UNION {{r.Effect : r \in Range(FetchResult("s3", k))} : k \in K}
NamesOf(A) ==
    UNION {{r.SpellVisualEffectNameID : r \in Range(FetchResult("s4", a))} : a \in A}
DataOf(N) ==
    UNION {{r.ModelFileDataID : r \in Range(FetchResult("s5", n))} : n \in N}
FilesOf(D, stage) ==
    UNION {{r.filename : r \in Range(FetchResult(stage, d))} : d \in D}
VisualsOf(root) == {r.SpellVisualID : r \in Range(FetchResult("s1", root))}

PrimaryArtifacts(root) ==
    FilesOf(DataOf(NamesOf(AttachOf(KitsOf(VisualsOf(root))))), "s6")

ChainKitsOf(V) ==
    UNION {{IF r.SpellVisualKitID = None THEN 0 ELSE r.SpellVisualKitID :
               r \in {e \in Range(FetchResult("c1", v)) : e.TargetType = 4}} : v \in V}
ProcsOf(K) ==
    UNION {{r.Effect : r \in {e \in Range(FetchResult("c2", k)) : Truthy(e.Effect)}} :
              k \in K}
ChainsOf(P) ==
    UNION {{r.Value_0 : r \in {e \in Range(FetchResult("c3", q)) : Truthy(e.Value_0)}} :
              q \in P}
TexturesOf(C) ==
    {tid \in UNION {{r.TextureFileDataID_0, r.TextureFileDataID_1, r.TextureFileDataID_2} :
                       r \in UNION {Range(FetchResult("c4", c)) : c \in C}} : Truthy(tid)}

SideArtifacts(root) ==
    FilesOf(TexturesOf(ChainsOf(ProcsOf(ChainKitsOf(VisualsOf(root))))), "c5")

\* C8: when all tasks of a multi-key query completed, the printed primary
\* list is the sorted, duplicate-free union of the tasks' primary artifact
\* sets, and the printed side list that of their side artifact sets.
C8_AggregateIsSortedUnion ==
    (~SingleMode /\ task[0].pc = "finished" /\ ids # <<>>) =>
        /\ Len(stdout) = 3
        /\ stdout[1].what = "m2"
        /\ IsSortedListOf(stdout[1].files,
                          UNION {PrimaryArtifacts(ids[i]) : i \in DOMAIN ids})
        /\ stdout[2].what = "chain"
        /\ IsSortedListOf(stdout[2].files,
                          UNION {SideArtifacts(ids[i]) : i \in DOMAIN ids})

\* "Fireball" resolved to 100 (files {a.m2}) and 200 (files {a.m2, b.m2}) and
\* the combined list [a.m2, b.m2] was printed.
C8_Witness ==
    /\ ids = <<100, 200>>
    /\ PrimaryArtifacts(100) = {1}
    /\ PrimaryArtifacts(200) = {1, 2}
    /\ task[0].pc = "finished"
    /\ stdout[1].files = <<1, 2>>
    /\ stdout[2].files = <<4, 5>>

\* C9: in a multi-key query the combined results are read and printed only
\* when every task of the query has returned.
C9_MergeAfterAllTasks ==
    [][(~SingleMode /\ ids # <<>> /\ stdout' # stdout) =>
          \A t \in DOMAIN ids : task[t].status = "done" /\ multi_progress[t] = TOTAL_STAGES]_vars

\* The combined results of a two-task query have been printed.
C9_Witness ==
    /\ ~SingleMode /\ Len(ids) = 2
    /\ \E i \in DOMAIN stdout : stdout[i].what = "m2"

\* The position of a stage in the run of a task.
StageNo(pc) ==
    CASE pc = "none" -> 0
      [] pc \in {"name", "classify"} -> 0
      [] pc = "s1" -> 1
      [] pc = "s2" -> 2
      [] pc = "s3" -> 3
      [] pc = "s4" -> 4
      [] pc = "s5" -> 5
      [] pc = "s6" -> 6
      [] pc = "report7" -> 7
      [] pc = "c1" -> 8
      [] pc = "c2" -> 9
      [] pc = "c3" -> 10
      [] pc = "c4" -> 11
      [] pc = "c5" -> 12
      [] pc = "done" -> 13

\* Stage `stage` of rec, fanning out over `input`, has begun with an empty
\* input: it sent no request, and once it is over its output is empty.
ShortCircuits(rec, stage, input, output) ==
    (StageNo(rec.pc) >= StageNo(stage) /\ input = {}) =>
        /\ stage \notin rec.requests
        /\ output = {}

\* C10: an empty input set at any fan-out step gives an empty output set
\* and no fetch; with an empty stage-1 output no fetch beyond the name and
\* stage-1 lookups is sent at all.
C10_EmptyShortCircuits ==
    \A t \in Created :
        LET rec == task[t] IN
        /\ ShortCircuits(rec, "s2", rec.visual_ids, rec.kit_ids)
        /\ ShortCircuits(rec, "s3", rec.kit_ids, rec.attach_ids)
        /\ ShortCircuits(rec, "s4", rec.attach_ids, rec.name_ids)
        /\ ShortCircuits(rec, "s5", rec.name_ids, rec.data_ids)
        /\ ShortCircuits(rec, "s6", rec.data_ids, Range(rec.filenames))
        /\ ShortCircuits(rec, "c1", rec.visual_ids, rec.c_kit_ids)
        /\ ShortCircuits(rec, "c2", rec.c_kit_ids, rec.proc_ids)
        /\ ShortCircuits(rec, "c3", rec.proc_ids, rec.chain_ids)
        /\ ShortCircuits(rec, "c4", rec.chain_ids, rec.texture_ids)
        /\ ShortCircuits(rec, "c5", rec.texture_ids, Range(rec.chain_texture_files))
        /\ (StageNo(rec.pc) >= 2 /\ rec.visual_ids = {}) =>
               rec.requests \subseteq {"name", "s1"}

\* A task whose stage 1 found no visual identifier ran to its end having sent
\* only the name and the stage-1 request.
C10_Witness ==
    \E t \in Created :
        /\ task[t].status = "done"
        /\ task[t].visual_ids = {}
        /\ task[t].requests = {"name", "s1"}
        /\ ReportedTerminal(t)

\* The identifiers that stand for "no identifier": None and the default 0.
Placeholders == {None, 0}

\* The StageSets of a task record.
StageSets(rec) ==
    {rec.visual_ids, rec.kit_ids, rec.attach_ids, rec.name_ids, rec.data_ids,
     rec.c_kit_ids, rec.proc_ids, rec.chain_ids, rec.texture_ids}

\* C11 (as claimed): a row without the expected identifier key is dropped: no
\* StageSet of a task holds None or the placeholder 0, and no fetch of a
\* fan-out stage is to be sent with None or 0 as its filter value.
C11_MissingKeysDropped ==
    \A t \in Created :
        /\ \A S \in StageSets(task[t]) : S \cap Placeholders = {}
        /\ StageNo(task[t].pc) >= 2 =>
               Range(task[t].todo) \cap Placeholders = {}

\* C12: once stage 6 of a task is over, its model-file identifiers and its
\* primary artifact set are those the responses determine for its root
\* identifier, in whatever order the sub-fetches of its stages were started
\* and completed (in multi-key mode the set is part of the shared result,
\* which holds nothing else than the sets of the tasks).
C12_OrderIndependent ==
    /\ \A t \in Created :
          (StageNo(task[t].pc) > 6 /\ task[t].status # "idle") =>
              LET D == DataOf(NamesOf(AttachOf(KitsOf(VisualsOf(task[t].spell_id)))))
              IN /\ task[t].data_ids = D
                 /\ IF SingleMode
                    THEN Range(task[t].filenames) = FilesOf(D, "s6")
                    ELSE FilesOf(D, "s6") \subseteq aggregate_m2
    /\ (~SingleMode /\ aggregate_m2 # {}) =>
          aggregate_m2 \subseteq UNION {PrimaryArtifacts(task[u].spell_id) : u \in Created}

\* Root 200 has the model files 41 and 42: the file search for 42 was started
\* and answered first, the one for 41 has not started yet.
C12_Witness ==
    /\ SingleMode
    /\ task[1].spell_id = 200 /\ task[1].pc = "s6"
    /\ task[1].filenames = <<2>>
    /\ task[1].todo = <<41>>

\* The requests of the data set that are answered by a page without the
\* embedded payload or with a payload without data rows.
NoDataRequests ==
    {rq \in {"s2", "c1"} \X {3, 4} :
        ~RemotePage(rq[1], rq[2]).div \/ ~RemotePage(rq[1], rq[2]).has_data}

\* C13: a fetch raises on a non-success response (ClientResponseError) and,
\* with a success status, only on a payload that is not JSON; a page without
\* the payload or without data rows gives the empty list and no error, and
\* the task that received it goes on (root 300: past stage 2 with no kit).
C13_AbsentDataIsEmpty ==
    /\ \A rq \in NoDataRequests :
          FetchOutcome(rq[1], rq[2]) = [raised |-> "none", rows |-> <<>>]
    /\ \A p \in Procs :
          /\ task[p].status = "failed" <=> task[p].error # "none"
          /\ task[p].error \in
                 {"none", "ClientResponseError", "JSONDecodeError", "HTTPError", "task"}
          /\ task[p].error = "JSONDecodeError" =>
                 RemotePage(task[p].pc, task[p].spell_id).malformed
          /\ (task[p].spell_id = 300 /\ StageNo(task[p].pc) >= 3) =>
                 task[p].kit_ids = {} /\ "s2" \in task[p].requests

\* The task of root 300 has received the page without payload and the page
\* without data rows of its two stage-2 fetches and is past stage 2.
C13_Witness ==
    \E t \in Created :
        /\ task[t].spell_id = 300
        /\ task[t].visual_ids = {3, 4}
        /\ task[t].pc = "s3" /\ task[t].status = "running"
        /\ NoDataRequests = {"s2", "c1"} \X {3, 4}

\* C14: when the name search found no root identifier, search_and_process
\* returns without error after the "no spells found" message: no task, no
\* renderer, no done event, no label or progress slot, no result block and
\* no link, and no request other than the name search.
C14_NoMatchIsQuiet ==
    (~SingleMode /\ ids = <<>> /\ task[0].pc \notin {"none", "ids_by_name", "crashed"}) =>
        /\ task[0].pc = "finished" /\ task[0].status = "done"
        /\ task[0].error = "none"
        /\ task[0].requests = {"ids_by_name"}
        /\ Created = {}
        /\ renderer = "none" /\ multi_done_event = "none"
        /\ multi_labels = <<>> /\ multi_progress = <<>> /\ frame = <<>>
        /\ stdout = <<Block("nomatch", <<>>, 0)>>
        /\ InFlight = 0 /\ SEM = SemLimit

\* The name "Arcane" matched no SpellName row and the query is over.
C14_Witness ==
    /\ query.name = "Arcane"
    /\ task[0].pc = "finished"
    /\ ids = <<>>
    /\ \E i \in DOMAIN stdout : stdout[i].what = "nomatch"

\* C15: root 300 has the two visuals 3 and 4, for which SpellVisualEvent
\* returns no row. Its task sends no request beyond the name, stage 1,
\* stage 2 and the first side-chain step, every later set and both artifact
\* lists stay empty, it ends in error only through a non-success response,
\* it can always take a step until it is over, and when it is over stage 7
\* was reported and the two empty lists and the link were printed.
C15_EmptyStage2Scenario ==
    \A t \in Created :
        task[t].spell_id = 300 =>
            LET rec == task[t] IN
            /\ rec.requests \subseteq {"name", "s1", "s2", "c1"}
            /\ \A S \in StageSets(rec) \ {rec.visual_ids} : S = {}
            /\ rec.filenames = <<>> /\ rec.chain_texture_files = <<>>
            /\ rec.error \in {"none", "ClientResponseError", "HTTPError"}
            /\ rec.status = "running" => ENABLED Next
            /\ rec.status = "done" =>
                   /\ rec.visual_ids = {3, 4}
                   /\ rec.requests = {"name", "s1", "s2", "c1"}
                   /\ ReportedTerminal(t)
                   /\ stdout = <<Block("m2", <<>>, 300), Block("chain", <<>>, 300),
                                 Block("link", <<>>, 300)>>

\* The task of root 300 is over: it found two visuals and reported stage 7.
C15_Witness ==
    \E t \in Created :
        /\ task[t].spell_id = 300 /\ task[t].status = "done"
        /\ Cardinality(task[t].visual_ids) = 2
        /\ task[t].kit_ids = {} /\ task[t].c_kit_ids = {}
        /\ ReportedTerminal(t)

\* C16 (as claimed): in stages 2 to 6 and in every step of the side-chain a
\* sub-fetch starts without waiting for the previous sub-fetch of its stage:
\* whenever a running task has a sub-fetch left to start and a permit is
\* free, that sub-fetch can start.
C16_SubFetchesConcurrent ==
    \A t \in Created :
        (/\ task[t].status = "running"
         /\ task[t].pc \in SetStages
         /\ task[t].todo # <<>>
         /\ PermitFree) =>
            ENABLED (\E i \in DOMAIN task[t].todo : Acquire(t, i))

\* The stage last reported for task t (-1 before stage 0 is reported).
LastReported(t) ==
    IF SingleMode
    THEN IF progress_log = <<>> THEN -1 ELSE progress_log[Len(progress_log)]
    ELSE IF t \in DOMAIN multi_progress THEN multi_progress[t] ELSE -1

\* A step of task t: it leaves its stage or reports a stage only when every
\* sub-fetch of its stage has started and returned, a request it sends
\* belongs to the stage it is in, and while it is in stage k (1..6) the
\* stage reported is k - 1.
C17_Step(t) ==
    /\ (task[t].status = "running" /\ task'[t].status # "idle"
          /\ (task'[t].pc # task[t].pc \/ LastReported(t)' # LastReported(t))) =>
           (task[t].todo = <<>> /\ Idle(t))
    /\ task'[t].requests \ task[t].requests \subseteq {task[t].pc}
    /\ (task[t].status = "running" /\ StageNo(task[t].pc) \in 1..6) =>
           LastReported(t) = StageNo(task[t].pc) - 1

\* C17: every stage is a join barrier: the next stage sends no request and
\* the stage counter does not advance to k before every sub-fetch of stage
\* k has completed, in whatever order they complete.
C17_JoinBarrier == [][\A t \in Tasks : C17_Step(t)]_vars

\* Stage 3 of a task has three sub-fetches: one has returned, one is in
\* flight and one has not started, and the stage reported is still 2.
C17_Witness ==
    \E t \in Created :
        /\ task[t].pc = "s3" /\ task[t].status = "running"
        /\ task[t].got # {} /\ ~Idle(t) /\ task[t].todo # <<>>
        /\ LastReported(t) = 2

\* C18 (as claimed): the side-chain does not wait for stages 2 to 6: while a
\* running task with a non-empty visual-identifier set is in one of the
\* stages 2 to 6 and a permit is free, its first side-chain request can be
\* sent, unless it was sent already.
C18_SideChainConcurrent ==
    \A t \in Created :
        (/\ task[t].status = "running"
         /\ StageNo(task[t].pc) \in 2..6
         /\ task[t].visual_ids # {}
         /\ "c1" \notin task[t].requests
         /\ PermitFree) =>
            ENABLED (Next /\ "c1" \in task'[t].requests)

\* C19 (as claimed): stage 0 is non-fatal: no task ends in the error of its
\* display-name lookup, and a task past stage 0 whose lookup returned no row
\* is labelled with the string form of its identifier.
C19_Stage0NonFatal ==
    \A t \in Created :
        /\ ~(task[t].pc = "name" /\ task[t].status = "failed")
        /\ (StageNo(task[t].pc) >= 1 /\ FetchResult("name", task[t].spell_id) = <<>>) =>
               task[t].spell_name = ToString(task[t].spell_id)

\* Every bar of the query stands at the terminal stage.
AllTerminal(bars) ==
    /\ DOMAIN bars = DOMAIN ids
    /\ \A i \in DOMAIN bars : bars[i] = TOTAL_STAGES

\* The stop signal is set only with every slot at 7, the renderer has exited
\* only after the signal and with every bar of its last frame at 7, and a
\* combined result is printed only after the renderer has exited.
C20_State ==
    ~SingleMode =>
        /\ multi_done_event = "set" => AllTerminal(multi_progress)
        /\ renderer = "exited" => (multi_done_event = "set" /\ AllTerminal(frame))
        /\ (\E i \in DOMAIN stdout : stdout[i].what \in {"m2", "chain", "link"}) =>
               renderer = "exited"

\* C20: the renderer goes on rendering while the stop signal is not set,
\* the signal is set only when every task has reported stage 7, the renderer
\* then writes one final frame with every bar at 7 and exits (nothing is
\* rendered after that), and the combined results are printed only after it
\* has exited.
C20_RendererUntilAllDone ==
    [][/\ C20_State /\ C20_State'
       /\ (renderer = "running" /\ renderer' # "running" /\ renderer' # "cancelled") =>
              (multi_done_event = "set" /\ renderer' = "exited" /\ frame' = multi_progress)
       /\ renderer = "exited" => (frame' = frame /\ renderer' = "exited")
       /\ (renderer = "running" /\ multi_done_event = "clear" /\ frame' # frame) =>
              (frame' = multi_progress /\ renderer' = "running")]_vars

\* Both tasks of a two-task query are over: the renderer has written its
\* final frame with both bars at 7 and has exited, and the combined results
\* are not printed yet.
C20_Witness ==
    /\ renderer = "exited"
    /\ frame = <<TOTAL_STAGES, TOTAL_STAGES>>
    /\ task[0].pc = "await_renderer"
    /\ stdout = <<>>

\* The slots of multi_progress whose value changes in the step.
WrittenSlots ==
    {i \in DOMAIN multi_progress \cap DOMAIN multi_progress' :
        multi_progress'[i] # multi_progress[i]}

\* C21: in a multi-key query a step changes at most one slot of
\* multi_progress, and the step that changes slot i is a step of task i
\* (process_spell_indexed with idx = i): task i moves on, no other process
\* moves, and the renderer neither exits nor writes a frame in it; a step in
\* which the renderer writes a frame or exits leaves every slot as it was.
C21_SingleWriterPerSlot ==
    [][/\ Cardinality(WrittenSlots) <= 1
       /\ \A i \in WrittenSlots :
             /\ i \in Created
             /\ task[i].status = "running"
             /\ task'[i] # task[i]
             /\ \A q \in Procs \ {i} : task'[q] = task[q]
             /\ frame' = frame /\ renderer' = renderer
       /\ (renderer \in {"running", "exited"} /\ (frame' # frame \/ renderer' # renderer)) =>
             multi_progress' = multi_progress]_vars

\* Two tasks have each advanced their own slot, to different stages, while
\* the renderer is running and its last frame is older than both writes.
C21_Witness ==
    /\ ~SingleMode /\ renderer = "running"
    /\ multi_progress = <<2, 4>>
    /\ frame = <<0, 0>>
    /\ task[1].pc = "s3" /\ task[2].pc = "s5"

\* Every permit taken belongs to a request in flight, which waits for
\* nothing but its response.
C22_Held == task[0].status # "idle" => SEM + InFlight = SemLimit

\* The query is over with every permit back in the semaphore.
C22_Released ==
    /\ QueryOver
    /\ SEM = SemLimit
    /\ InFlight = 0

\* C22: a permit is held only by a request in flight, and when every remote
\* call eventually returns, every query eventually is over, by return or by
\* exception, with no permit in use and no request in flight, and stays so:
\* no permit is leaked on success, on failure or on cancellation, and no
\* fetch waits for ever for a permit, also with more sub-fetches than
\* permits and with several tasks.
C22_PermitsReturnAndQueryEnds == []C22_Held /\ <>[]C22_Released

\* The wide root, with more stage-2 sub-fetches than permits: one sub-fetch
\* was answered with a non-success status, the others were cancelled, and
\* the query is over with all 16 permits back.
C22_Witness ==
    /\ query.id = 500 /\ Cardinality(task[1].visual_ids) > SemLimit
    /\ task[1].pc = "s2" /\ task[1].error = "ClientResponseError"
    /\ C22_Released
====
